---- MODULE Spec2Model ----
(***************************************************************************)
(* natpmpd: the NAT-PMP daemon of src/natpmpd.c as a state machine.        *)
(*                                                                         *)
(* The daemon is a single-threaded libevent reactor.  One step of the      *)
(* model is one callback run to completion: common_handler (a datagram on  *)
(* a listening socket), expire_mapping (a mapping's expiry timer),         *)
(* route_handler (a routing-socket message), announce_address (the         *)
(* announcement timer) and handle_signal (SIGINT, SIGTERM).  What a        *)
(* callback emits (the datagrams it sends, the calls it makes to the       *)
(* packet-filter backend) is kept until the environment takes it (Drain),  *)
(* and the reactor dispatches the next callback only then, so that in the  *)
(* state after a callback `outbox` and `fwlog` hold exactly what that      *)
(* callback emitted, `req` the datagram it read and `before` the state it  *)
(* started from.                                                           *)
(*                                                                         *)
(* Spec covers the mapping side of the daemon with every kind of datagram; *)
(* SpecBackend the requests of one client over a backend that fails in     *)
(* every way; SpecAnnounce and LiveAnnounce the interface events and the   *)
(* announcement timer; SpecSignal all callbacks, the signal handler        *)
(* included; SpecExpiry and LiveExpiry the requests and expiry timers.     *)
(*                                                                         *)
(* Memory is modelled at the level the code compares it: ports, lifetimes  *)
(* and addresses are the byte strings that memcpy/memcmp see (network      *)
(* byte order), and htons/ntohl convert between them and host integers.    *)
(***************************************************************************)
EXTENDS Integers, Sequences, FiniteSets, TLC

VARIABLES
    mappings,        \* LIST_HEAD mappings: the list, head first
    rules,           \* the rdr rules installed in the packet filter's anchor
    sc_address,      \* env->sc_address, the IPv4 part (s6_addr[12..15])
    sc_delay,        \* env->sc_delay
    sc_announce_ev,  \* env->sc_announce_ev: [pending, tv]
    timers,          \* libevent's timeout queue: the mappings (by TimerOf)
                     \* whose expiry timer is in it
    status,          \* "running", "crashed" (killed by a memory fault),
                     \* "exited" (exit(0))
    handler,         \* the callback that ran last, "none" once drained
    before,          \* <<>> or <<b>>: the daemon's state as it found it
    req,             \* <<>> or <<d>>: the datagram that callback received
    outbox,          \* the datagrams that callback sent (sendto)
    fwlog,           \* the backend calls that callback made, in order
    last_rebuild     \* what the most recent rebuild_rules() returned

vars == <<mappings, rules, sc_address, sc_delay, sc_announce_ev, timers,
          status, handler, before, req, outbox, fwlog,
          last_rebuild>>

---------------------------------------------------------------------------
(* Bounds of the model *)

NumClients == 2
MaxPort == 2
MaxLifetime == 1
NumExtAddrs == 1
MaxMappings == 2
NumAnnounceAddrs == 3

---------------------------------------------------------------------------
(* Constants of the program and of the system headers it includes *)

IPPROTO_TCP == 6
IPPROTO_UDP == 17
AF_INET == 2
AF_INET6 == 24
IPPORT_HIFIRSTAUTO == 49152
IPPORT_HILASTAUTO == 65535

NATPMP_MAX_VERSION == 0
NATPMPD_MAX_VERSION == 0
NATPMPD_MAX_DELAY == 10
NATPMP_MAX_PACKET_SIZE == 16

\* The size common_handler receives into, less one.  At least
\* sizeof(struct natpmp_response), which natpmp_handler asserts; taken at
\* that least value.
NATPMPD_MAX_PACKET_SIZE == 16

NATPMPD_CLIENT_PORT == 5350

NATPMP_OPCODE_ANNOUNCE == 0
NATPMP_OPCODE_MAP_UDP == 1
NATPMP_OPCODE_MAP_TCP == 2

NATPMP_SUCCESS == 0
NATPMP_UNSUPP_VERSION == 1
NATPMP_NETWORK_FAILURE == 3
NATPMP_UNSUPP_OPCODE == 5

\* struct timeval timeouts[NATPMPD_MAX_DELAY], in microseconds
timeouts == <<0, 250000, 500000, 1000000, 2000000, 4000000, 8000000,
              16000000, 32000000, 64000000>>

---------------------------------------------------------------------------
(* Bytes *)

\* htons: a host integer as the two bytes of a u_int16_t in network order
htons(v) == <<(v \div 256) % 256, v % 256>>

\* htonl: a host integer as the four bytes of a u_int32_t in network order
htonl(v) == <<(v \div 16777216) % 256, (v \div 65536) % 256,
              (v \div 256) % 256, v % 256>>

\* ntohl: the host integer of four bytes in network order
ntohl(b) == ((b[1] * 256 + b[2]) * 256 + b[3]) * 256 + b[4]

\* memcpy(buf + off, src, Len(src)); writes past the end of buf are dropped
Put(buf, off, src) ==
    [i \in 1..Len(buf) |->
        IF i > off /\ i <= off + Len(src) THEN src[i - off] ELSE buf[i]]

\* A byte of stack memory that was never written
Junk == -1

ZeroPort == <<0, 0>>
ZeroLifetime == <<0, 0, 0, 0>>

\* IN6ADDR_V4MAPPED_INIT, the IPv4 part: 0.0.0.0
Unspecified == <<0, 0, 0, 0>>

ExtAddrs == {<<198, 51, 100, a>> : a \in 1..NumExtAddrs}
Clients == {<<10, 0, 0, c>> : c \in 1..NumClients}
IntPorts == {htons(p) : p \in 1..MaxPort}

---------------------------------------------------------------------------
(* The mapping store: struct mapping, LIST_HEAD mappings *)

\* A struct sockaddr_in as the code uses it (sin_len and sin_zero, which are
\* equal in everything the code compares, are left out)
SockAddr(family, addr, port) ==
    [sin_family |-> family, sin_addr |-> addr, sin_port |-> port]

\* memcmp(&m->rdr, rdr, sizeof(m->rdr)) == 0
SameRdr(m, rdr) == m.rdr = rdr

\* The index of the mapping the scan of natpmp_create_mapping breaks on
\* (same protocol, same internal endpoint), 0 when it runs off the list
ExactMatch_NeverFound(list, proto, rdr) == 0

ExactMatch(list, proto, rdr) ==
    LET hits == {i \in 1..Len(list) :
                    list[i].proto = proto /\ SameRdr(list[i], rdr)}
    IN  IF hits = {} THEN 0 ELSE CHOOSE i \in hits : \A j \in hits : i <= j

\* r of natpmp_create_mapping: the last mapping the scan passed with the
\* same internal endpoint under another protocol, 0 for NULL
RelatedMatch_NeverFound(list, proto, rdr) == 0

RelatedMatch(list, proto, rdr) ==
    LET stop == ExactMatch(list, proto, rdr)
        last == IF stop = 0 THEN Len(list) ELSE stop
        hits == {i \in 1..last :
                    list[i].proto # proto /\ SameRdr(list[i], rdr)}
    IN  IF hits = {} THEN 0 ELSE CHOOSE i \in hits : \A j \in hits : i >= j

\* dst->sin_port after the "existing mapping" branch: the stored external
\* port whenever the stored external endpoint differs from the requested one
RefreshedPort_KeepRequested(m, dst) == dst.sin_port

RefreshedPort(m, dst) ==
    IF m.dst # dst THEN m.dst.sin_port ELSE dst.sin_port

\* The values arc4random_uniform(upper_bound) is sampled at: the ends of its
\* range 0..upper_bound-1
arc4random_uniform(upper_bound) == {0, upper_bound - 1}

\* evtimer_add(&m->ev, &tv) with tv.tv_sec = lifetime
Armed(lifetime) == [pending |-> TRUE, tv_sec |-> lifetime]

\* The expiry timer of the mapping m as the timeout queue holds it: the
\* event's argument is m, which its protocol and internal endpoint identify
TimerOf(m) == <<m.proto, m.rdr>>

\* if (evtimer_pending(&m->ev, NULL)) evtimer_del(&m->ev): the timers taken
\* off the timeout queue
EvtimerDel_Forgotten(m) == {}

EvtimerDel(m) == IF m.ev.pending THEN {TimerOf(m)} ELSE {}

\* "otherwise conjure up a random one": the port given to a mapping that has
\* no related mapping, when arc4random_uniform returned rnd
ConjuredPort_AsAsked(dst, rnd) ==
    IF dst.sin_port # ZeroPort THEN dst.sin_port
    ELSE htons(IPPORT_HIFIRSTAUTO + rnd)

ConjuredPort(dst, rnd) == htons(IPPORT_HIFIRSTAUTO + rnd)

\* natpmp_create_mapping: the list, *dst and the return value afterwards,
\* the timers it took off the timeout queue (deleted) and then put on it
\* (added).  rnd is what arc4random_uniform returned.
natpmp_create_mapping(list, proto, rdr, dst, lifetime, rnd) ==
    LET e == ExactMatch(list, proto, rdr)
        r == RelatedMatch(list, proto, rdr)
    IN  IF e # 0
        THEN [mappings |-> [list EXCEPT ![e].ev = Armed(lifetime)],
              dst      |-> [dst EXCEPT !.sin_port = RefreshedPort(list[e], dst)],
              deleted  |-> EvtimerDel(list[e]),
              added    |-> {TimerOf(list[e])},
              count    |-> 0]
        ELSE LET port == IF r # 0 THEN list[r].dst.sin_port
                         ELSE ConjuredPort(dst, rnd)
                 d2   == [dst EXCEPT !.sin_port = port]
                 m    == [proto |-> proto, dst |-> d2, rdr |-> rdr,
                          ev |-> Armed(lifetime)]
             IN  [mappings |-> <<m>> \o list,   \* LIST_INSERT_HEAD
                  dst      |-> d2,
                  deleted  |-> {},
                  added    |-> {TimerOf(m)},
                  count    |-> 1]

\* The test natpmp_remove_mapping makes of each mapping
RemoveHit(m, proto, rdr) ==
    /\ m.proto = proto
    /\ m.rdr.sin_addr = rdr.sin_addr
    /\ (rdr.sin_port = ZeroPort \/ m.rdr.sin_port = rdr.sin_port)

\* What reading m->entry.le_next yields after free(m), for the successive
\* frees of one loop: the first `intact` reads still find the old pointer,
\* the next one finds `then`: NULL (the loop ends) or a wild pointer (the
\* dereference faults).  FreedReads(n): the outcomes that differ for a loop
\* that frees up to n mappings.
AllIntact == [intact |-> MaxMappings + 1, then |-> "null"]

FreedReads(n) ==
    {AllIntact} \cup
    {[intact |-> k, then |-> t] : k \in 0..(n - 1), t \in {"null", "wild"}}

\* The loop of natpmp_remove_mapping from the mapping at the head of `rest`:
\* `kept` are the mappings already passed, `count` the frees so far, `del`
\* the timers taken off the timeout queue so far
RECURSIVE RemoveLoop(_, _, _, _, _, _, _)
RemoveLoop(kept, rest, count, del, proto, rdr, freed) ==
    IF rest = <<>>
    THEN [mappings |-> kept, count |-> count, deleted |-> del,
          fault |-> FALSE]
    ELSE IF RemoveHit(Head(rest), proto, rdr)
         THEN \* evtimer_del, LIST_REMOVE, free(m); then m = LIST_NEXT(m)
              IF count < freed.intact
              THEN RemoveLoop(kept, Tail(rest), count + 1,
                              del \cup EvtimerDel(Head(rest)),
                              proto, rdr, freed)
              ELSE [mappings |-> kept \o Tail(rest), count |-> count + 1,
                    deleted |-> del \cup EvtimerDel(Head(rest)),
                    fault |-> (freed.then = "wild")]
         ELSE RemoveLoop(Append(kept, Head(rest)), Tail(rest), count, del,
                         proto, rdr, freed)

natpmp_remove_mapping(list, proto, rdr, freed) ==
    RemoveLoop(<<>>, list, 0, {}, proto, rdr, freed)

---------------------------------------------------------------------------
(* The packet-filter backend and rebuild_rules *)

\* The rule add_rdr installs for a mapping
RuleOf(m) == [proto |-> m.proto, dst |-> m.dst, rdr |-> m.rdr]

RulesOf(list) == {RuleOf(list[i]) : i \in 1..Len(list)}

\* One call of the backend as the log keeps it: the function, what it
\* returned and, for a failed do_commit, errno
Call(fn, ret, errno) == [call |-> fn, ret |-> ret, errno |-> errno]

\* What the caller of rebuild_rules logs when it returned -1
LogWarn == Call("log_warn", 0, "")

\* How the backend answers one rebuild: what prepare_commit returns, which
\* add_rdr fails (0: none), and what the first and the second do_commit set
\* errno to ("": the commit succeeded)
Answer(prepare, add, commit, retry) ==
    [prepare |-> prepare, add |-> add, commit |-> commit, retry |-> retry]

AnswerOk == Answer(0, 0, "", "")

BackendAnswers ==
    { AnswerOk,
      Answer(-1, 0, "", ""),
      Answer(0, 1, "", ""),
      Answer(0, 0, "EBUSY", ""),
      Answer(0, 0, "EBUSY", "EBUSY"),
      Answer(0, 0, "EBUSY", "EIO"),
      Answer(0, 0, "EIO", "") }

\* A backend that never fails for good
BackendUp == {AnswerOk, Answer(0, 0, "EBUSY", "")}

\* if (errno != EBUSY) goto fail
GivesUp_Never(errno) == FALSE

GivesUp(errno) == errno # "EBUSY"

\* do_commit when the backend sets errno to e
Commit(e) == Call("do_commit", IF e = "" THEN 0 ELSE -1, e)

\* rebuild_rules: the anchor's rules, the backend calls made and the return
\* value, when the backend answers `fw`.  A commit that succeeds leaves the
\* anchor with the rules added since prepare_commit; otherwise the anchor
\* keeps the rules it had.
rebuild_rules(list, installed, fw) ==
    LET fail(log) == [rules |-> installed, rc |-> -1,
                      log |-> Append(log, Call("do_rollback", 0, ""))]
        done(log) == [rules |-> RulesOf(list), rc |-> 0, log |-> log]
        prepare == <<Call("prepare_commit", fw.prepare, "")>>
        \* the add_rdr calls, up to the one that fails
        last  == IF fw.add \in 1..Len(list) THEN fw.add ELSE Len(list)
        adds  == [i \in 1..last |->
                    Call("add_rdr", IF i = fw.add THEN -1 ELSE 0, "")]
        first == prepare \o adds \o <<Commit(fw.commit)>>
        again == first \o <<Call("usleep", 0, ""), Commit(fw.retry)>>
    IN  IF fw.prepare = -1 THEN fail(prepare)
        ELSE IF fw.add \in 1..Len(list) THEN fail(prepare \o adds)
        ELSE IF fw.commit = "" THEN done(first)
        ELSE IF GivesUp(fw.commit) THEN fail(first)
        ELSE IF fw.retry = "" THEN done(again)
        ELSE fail(again)

\* if (rebuild_rules() == -1) log_warn("unable to rebuild ruleset"), in
\* natpmp_mapping, expire_mapping and handle_signal: what is logged, and
\* whether the failure ends the process (as it does in main, not here)
\* What the most recent rebuild_rules() returned, after a callback that
\* logged the calls `log`, when it was rc before
LastRebuild(log, rc) ==
    IF \A i \in 1..Len(log) : log[i].call # "prepare_commit" THEN rc
    ELSE IF \E i \in 1..Len(log) : log[i] = LogWarn THEN -1
    ELSE 0

Rebuilt_Fatal(rb) ==
    [log |-> rb.log, fatal |-> rb.rc = -1]

Rebuilt(rb) ==
    [log   |-> IF rb.rc = -1 THEN Append(rb.log, LogWarn) ELSE rb.log,
     fatal |-> FALSE]

---------------------------------------------------------------------------
(* NAT-PMP requests: natpmp_mapping, natpmp_handler, common_handler *)

\* struct natpmp_request and struct natpmp_response: fields at byte offsets
ReqVersion(data) == data[1]
ReqOpcode(data) == data[2]
ReqPort0(data) == SubSeq(data, 5, 6)
ReqPort1(data) == SubSeq(data, 7, 8)
ReqLifetime(data) == SubSeq(data, 9, 12)

RespOpcode(data) == data[2]
RespResult(data) == SubSeq(data, 3, 4)
RespSssoe(data) == SubSeq(data, 5, 8)
RespAddress(data) == SubSeq(data, 9, 12)
RespPort0(data) == SubSeq(data, 9, 10)
RespPort1(data) == SubSeq(data, 11, 12)
RespLifetime(data) == SubSeq(data, 13, 16)

\* A result code as it lies in the response (network byte order)
ResultBytes(code) == htons(code)

\* What a handler leaves behind when it returns without doing anything
NoEffect(list, installed) ==
    [mappings |-> list, rules |-> installed, fwlog |-> <<>>,
     deleted |-> {}, added |-> {}, sent |-> <<>>, fault |-> FALSE]

\* The fields natpmp_mapping writes into the response after a create or
\* refresh (response->data.mapping.port[0], port[1], lifetime)
CreateReply_InternalTwice(rdr, dst, lifetime) ==
    [port0 |-> rdr.sin_port, port1 |-> rdr.sin_port, lifetime |-> lifetime]

CreateReply(rdr, dst, lifetime) ==
    [port0 |-> rdr.sin_port, port1 |-> dst.sin_port, lifetime |-> lifetime]

\* if (count): whether natpmp_mapping rebuilds the rules
NeedsRebuild_Never(count) == FALSE

NeedsRebuild(count) == count # 0

\* natpmp_mapping: the store, the rules and the backend calls afterwards, the
\* timers taken off and put on the timeout queue, and the three fields it
\* writes into the response.  c holds what the
\* environment decides during the call: c.rnd (arc4random_uniform), c.freed
\* (reads of freed memory), c.fw (the backend's answer).
natpmp_mapping(list, installed, proto, rdr, dst, lifetime, c) ==
    LET done(after, count, deleted, added, reply) ==
            \* if (count) rebuild_rules(); return (16)
            IF NeedsRebuild(count)
            THEN LET rb == rebuild_rules(after, installed, c.fw)
                 IN  [mappings |-> after, rules |-> rb.rules,
                      fwlog |-> Rebuilt(rb).log, fault |-> Rebuilt(rb).fatal,
                      deleted |-> deleted, added |-> added, reply |-> reply]
            ELSE [mappings |-> after, rules |-> installed,
                  fwlog |-> <<>>, fault |-> FALSE,
                  deleted |-> deleted, added |-> added, reply |-> reply]
        removed(reply) ==
            LET rm == natpmp_remove_mapping(list, proto, rdr, c.freed)
            IN  IF rm.fault
                THEN [mappings |-> rm.mappings, rules |-> installed,
                      fwlog |-> <<>>, fault |-> TRUE,
                      deleted |-> rm.deleted, added |-> {}, reply |-> reply]
                ELSE done(rm.mappings, rm.count, rm.deleted, {}, reply)
    IN  IF rdr.sin_port # ZeroPort
        THEN IF lifetime # ZeroLifetime
             THEN \* Create mapping with preferred or random port
                  LET cr == natpmp_create_mapping(list, proto, rdr, dst,
                                                  ntohl(lifetime), c.rnd)
                  IN  done(cr.mappings, cr.count, cr.deleted, cr.added,
                           CreateReply(rdr, cr.dst, lifetime))
             ELSE \* Delete single mapping
                  removed([port0 |-> rdr.sin_port, port1 |-> ZeroPort,
                           lifetime |-> ZeroLifetime])
        ELSE \* Delete all mappings
             removed([port0 |-> ZeroPort, port1 |-> ZeroPort,
                      lifetime |-> ZeroLifetime])

\* The length tests of natpmp_handler
AnnounceLenOk(len) == len = 2

MappingLenOk_Any(len) == len >= 12

MappingLenOk(len) == len = 12

\* The stack that lies behind the array `storage` for an access of len bytes
Beyond(storage, len) == [i \in 1..(len - Len(storage)) |-> Junk]

\* memcpy(response, request, len) runs past response_storage
Overflows(len) == len > NATPMP_MAX_PACKET_SIZE

\* The "unsupported opcode" branch: the request copied over the response
\* (and, when it is longer, over the stack behind it), then the result
EchoUnsupported_NoCopy(response, data) ==
    Put(response \o Beyond(response, Len(data)),
        2, ResultBytes(NATPMP_UNSUPP_OPCODE))

EchoUnsupported(response, data) ==
    Put(Put(response \o Beyond(response, Len(data)), 0, data),
        2, ResultBytes(NATPMP_UNSUPP_OPCODE))

\* "We don't have an external address": the result set before the opcode is
\* looked at
ResultFor_Success(address) == NATPMP_SUCCESS

ResultFor(address) ==
    IF address = Unspecified THEN NATPMP_NETWORK_FAILURE ELSE NATPMP_SUCCESS

\* natpmp_handler for the datagram d = [from, data]; c as in natpmp_mapping,
\* with c.now what sssoe() returns and c.smash whether a write past
\* response_storage ends the process
natpmp_handler(list, installed, address, d, c) ==
    LET data == d.data
        len  == Len(data)
        r0   == Put(Put([i \in 1..NATPMP_MAX_PACKET_SIZE |-> Junk],
                        0, <<NATPMPD_MAX_VERSION>>), 4, htonl(c.now))
        send(buf, n) ==
            [NoEffect(list, installed) EXCEPT
                !.sent = <<[to |-> d.from, data |-> SubSeq(buf, 1, n)]>>]
        r1   == Put(r0, 2, ResultBytes(ResultFor(address)))
        reply(buf) == Put(buf, 1, <<ReqOpcode(data) + 128>>)
        proto == IF ReqOpcode(data) = NATPMP_OPCODE_MAP_UDP
                 THEN IPPROTO_UDP ELSE IPPROTO_TCP
        rdr  == SockAddr(d.from.sin_family, d.from.sin_addr, ReqPort0(data))
        dst  == SockAddr(AF_INET, address, ReqPort1(data))
        mp   == natpmp_mapping(list, installed, proto, rdr, dst,
                               ReqLifetime(data), c)
    IN  IF d.from.sin_family # AF_INET
        THEN NoEffect(list, installed)
        ELSE IF ReqVersion(data) > NATPMP_MAX_VERSION
        THEN send(Put(Put(r0, 1, <<128>>), 2,
                      ResultBytes(NATPMP_UNSUPP_VERSION)), 8)
        ELSE IF ReqOpcode(data) = NATPMP_OPCODE_ANNOUNCE
        THEN IF ~AnnounceLenOk(len)
             THEN NoEffect(list, installed)
             ELSE send(reply(Put(r1, 8, address)), 12)
        ELSE IF ReqOpcode(data) \in {NATPMP_OPCODE_MAP_UDP,
                                    NATPMP_OPCODE_MAP_TCP}
        THEN IF ~MappingLenOk(len)
             THEN NoEffect(list, installed)
             ELSE IF mp.fault
             THEN [NoEffect(mp.mappings, mp.rules) EXCEPT
                      !.fault = TRUE, !.fwlog = mp.fwlog,
                      !.deleted = mp.deleted, !.added = mp.added]
             ELSE [mappings |-> mp.mappings, rules |-> mp.rules,
                   fwlog |-> mp.fwlog, fault |-> FALSE,
                   deleted |-> mp.deleted, added |-> mp.added,
                   sent |-> <<[to |-> d.from,
                               \* natpmp_mapping returns 16
                               data |-> SubSeq(reply(Put(r1, 8,
                                   mp.reply.port0 \o mp.reply.port1
                                   \o mp.reply.lifetime)), 1, 16)]>>]
        ELSE \* a smashed stack is found out when the function returns, if
             \* at all: after sendto
             [send(reply(EchoUnsupported(r1, data)), len) EXCEPT
                !.fault = Overflows(len) /\ c.smash]

\* pcp_handler: an empty function
pcp_handler(list, installed, address, d, c) == NoEffect(list, installed)

\* The tests common_handler makes before it dispatches on the version
HeaderOk(data) ==
    /\ Len(data) >= 1           \* recvfrom returned at least 1
    /\ Len(data) >= 2           \* sizeof(struct common_header)
    /\ data[2] < 128            \* !(header->opcode & 0x80)

\* common_handler, after recvfrom has returned d
Dispatch(list, installed, address, d, c) ==
    IF ~HeaderOk(d.data)
    THEN NoEffect(list, installed)
    ELSE IF ReqVersion(d.data) = 0
    THEN natpmp_handler(list, installed, address, d, c)
    ELSE pcp_handler(list, installed, address, d, c)

---------------------------------------------------------------------------
(* What the environment supplies *)

\* A mapping request as a client lays it out
MapRequest(version, opcode, port0, port1, lifetime) ==
    <<version, opcode, 0, 0>> \o port0 \o port1 \o htonl(lifetime)

\* A request of n bytes with an opcode the daemon does not know
UnknownRequest(n) ==
    [i \in 1..n |-> IF i = 1 THEN 0 ELSE IF i = 2 THEN 3 ELSE 16 + i]

\* The external ports clients ask for: none, and one the daemon may itself
\* have assigned
AskedPorts == {ZeroPort, htons(IPPORT_HIFIRSTAUTO)}

From(family, addr) == SockAddr(family, addr, htons(40000 + addr[4]))

\* The mapping requests of the right length, from every client
MappingDatagrams ==
    {[from |-> From(AF_INET, a),
      data |-> MapRequest(0, op, p0, p1, lt)] :
        a \in Clients,
        op \in {NATPMP_OPCODE_MAP_UDP, NATPMP_OPCODE_MAP_TCP},
        p0 \in IntPorts \cup {ZeroPort},
        p1 \in AskedPorts,
        lt \in 0..MaxLifetime}

\* Everything else a socket can deliver, from the first client
OtherPayloads ==
    LET good == MapRequest(0, NATPMP_OPCODE_MAP_UDP, htons(1), ZeroPort, 1)
    IN  { <<>>, <<0>>,                                \* shorter than a header
          <<0, NATPMP_OPCODE_ANNOUNCE>>,
          <<0, NATPMP_OPCODE_ANNOUNCE, 0>>,            \* announce, 3 bytes
          SubSeq(good, 1, 11), good \o <<0>>,          \* mapping, 11 and 13
          <<0, 128>>,                                  \* opcode & 0x80
          MapRequest(0, 129, htons(1), ZeroPort, 1),
          <<1, NATPMP_OPCODE_ANNOUNCE>>,               \* later versions
          MapRequest(2, NATPMP_OPCODE_MAP_UDP, htons(1), ZeroPort, 1),
          <<255, 127, 0, 0>> }
        \cup {UnknownRequest(n) :
                n \in {2, 3, 4, 12, NATPMPD_MAX_PACKET_SIZE + 1}}

Datagrams ==
    MappingDatagrams
    \cup {[from |-> From(AF_INET, <<10, 0, 0, 1>>), data |-> x] :
            x \in OtherPayloads}
    \cup {[from |-> From(AF_INET6, <<10, 0, 0, 1>>),
           data |-> MapRequest(0, NATPMP_OPCODE_MAP_UDP, htons(1), ZeroPort, 1)]}

\* What sssoe() is sampled at
Uptimes == {7}

\* What the environment decides while the datagram d is handled with the
\* store holding `list`: c.now (sssoe), and for a mapping request what it
\* consults of c.rnd (arc4random_uniform, when a port is conjured up),
\* c.freed (when mappings are freed) and c.fw (when the rules are rebuilt),
\* and for a datagram longer than response_storage c.smash
Decisions(list, d, answers) ==
    LET data   == d.data
        ismap  == /\ Len(data) = 12
                  /\ ReqVersion(data) = 0
                  /\ ReqOpcode(data) \in {NATPMP_OPCODE_MAP_UDP,
                                          NATPMP_OPCODE_MAP_TCP}
                  /\ d.from.sin_family = AF_INET
        proto  == IF ReqOpcode(data) = NATPMP_OPCODE_MAP_UDP
                  THEN IPPROTO_UDP ELSE IPPROTO_TCP
        rdr    == SockAddr(d.from.sin_family, d.from.sin_addr, ReqPort0(data))
        create == ReqPort0(data) # ZeroPort /\ ReqLifetime(data) # ZeroLifetime
        fresh  == create /\ ExactMatch(list, proto, rdr) = 0
        random == fresh /\ RelatedMatch(list, proto, rdr) = 0
        hits   == IF create THEN 0
                  ELSE Cardinality({i \in 1..Len(list) :
                                      RemoveHit(list[i], proto, rdr)})
    IN  IF ~ismap
        THEN {[now |-> t, rnd |-> 0, freed |-> AllIntact, fw |-> AnswerOk,
               smash |-> x] :
                t \in Uptimes,
                x \in IF Overflows(Len(data)) THEN BOOLEAN ELSE {FALSE}}
        ELSE {[now |-> t, rnd |-> n, freed |-> f, fw |-> a,
               smash |-> FALSE] :
                t \in Uptimes,
                n \in IF random
                      THEN arc4random_uniform(IPPORT_HILASTAUTO
                                              - IPPORT_HIFIRSTAUTO)
                      ELSE {0},
                f \in FreedReads(hits),
                a \in IF fresh \/ hits > 0 THEN answers ELSE {AnswerOk}}

---------------------------------------------------------------------------
(* The callbacks *)

\* The daemon's state as a callback finds it
Snapshot ==
    [mappings |-> mappings, rules |-> rules, sc_address |-> sc_address,
     sc_delay |-> sc_delay, sc_announce_ev |-> sc_announce_ev,
     timers |-> timers, status |-> status]

\* The handler common_handler, run on a datagram the socket delivers
Receive(datagrams, answers) ==
    /\ status = "running"
    /\ handler = "none"
    /\ \E d \in datagrams :
         \E c \in Decisions(mappings, d, answers) :
           \E r \in {Dispatch(mappings, rules, sc_address, d, c)} :
               /\ Len(r.mappings) <= MaxMappings
               /\ mappings' = r.mappings
               /\ timers' = (timers \ r.deleted) \cup r.added
               /\ rules' = r.rules
               /\ fwlog' = r.fwlog
               /\ last_rebuild' = LastRebuild(r.fwlog, last_rebuild)
               /\ outbox' = r.sent
               /\ status' = IF r.fault THEN "crashed" ELSE "running"
               /\ req' = <<d>>
    /\ handler' = "common_handler"
    /\ before' = <<Snapshot>>
    /\ UNCHANGED <<sc_address, sc_delay, sc_announce_ev>>

common_handler(answers) == Receive(Datagrams, answers)

\* The list without its i-th mapping: LIST_REMOVE(m, entry); free(m)
Without(list, i) == SubSeq(list, 1, i - 1) \o SubSeq(list, i + 1, Len(list))

\* The places in `list` of the mapping the timer t was armed for
Holder(list, t) == {i \in 1..Len(list) : TimerOf(list[i]) = t}

\* expire_mapping run by the expiry timer t; the reactor has taken it off
\* the timeout queue.  Its argument is the mapping it was armed for: were
\* that mapping freed already, LIST_REMOVE would work on freed memory.
Expire(t, answers) ==
    /\ status = "running"
    /\ handler = "none"
    /\ t \in timers
    /\ timers' = timers \ {t}
    /\ IF Holder(mappings, t) = {}
       THEN /\ status' = "crashed"
            /\ fwlog' = <<>>
            /\ UNCHANGED <<mappings, rules, last_rebuild>>
       ELSE \E i \in Holder(mappings, t), a \in answers :
              \E rb \in {rebuild_rules(Without(mappings, i), rules, a)} :
                 /\ mappings' = Without(mappings, i)
                 /\ rules' = rb.rules
                 /\ fwlog' = Rebuilt(rb).log
                 /\ last_rebuild' = rb.rc
                 /\ status' = IF Rebuilt(rb).fatal THEN "crashed"
                              ELSE "running"
    /\ handler' = "expire_mapping"
    /\ before' = <<Snapshot>>
    /\ req' = <<>>
    /\ outbox' = <<>>
    /\ UNCHANGED <<sc_address, sc_delay, sc_announce_ev>>

\* expire_mapping: some pending expiry timer fires
expire_mapping(answers) == \E t \in timers : Expire(t, answers)

NotPending == [pending |-> FALSE, tv |-> 0]

\* "Don't announce an interface having 0.0.0.0 as an address"
Announced_Any(addr) == TRUE

Announced(addr) == addr # Unspecified

\* "env->sc_delay = 0" before the first announcement of a new address
RestartDelay_Keep(delay) == delay

RestartDelay(delay) == 0

\* check_interface when the interface's first IPv4 address is addr
\* (Unspecified when it has none)
check_interface(addr) ==
    IF sc_address = addr
    THEN UNCHANGED <<sc_address, sc_delay, sc_announce_ev>>
    ELSE /\ sc_address' = addr
         /\ IF ~Announced(addr)
            THEN /\ sc_announce_ev' = NotPending
                 /\ UNCHANGED sc_delay
            ELSE /\ sc_delay' = RestartDelay(sc_delay)
                 /\ sc_announce_ev' =
                        [pending |-> TRUE, tv |-> timeouts[sc_delay' + 1]]

\* route_handler: a routing message; `named` when it is an address or
\* departure message that names the monitored interface, whose first IPv4
\* address is then one of addrs
RouteMessage(addrs) ==
    /\ status = "running"
    /\ handler = "none"
    /\ \E named \in BOOLEAN, addr \in addrs :
         IF named
         THEN check_interface(addr)
         ELSE UNCHANGED <<sc_address, sc_delay, sc_announce_ev>>
    /\ handler' = "route_handler"
    /\ before' = <<Snapshot>>
    /\ req' = <<>>
    /\ outbox' = <<>>
    /\ fwlog' = <<>>
    /\ UNCHANGED <<mappings, rules, timers, status, last_rebuild>>

route_handler == RouteMessage(ExtAddrs \cup {Unspecified})

\* The sockets the daemon listens on, by family (env->listen_addrs)
ListenFamilies == <<AF_INET, AF_INET6>>

\* htonl(INADDR_ALLHOSTS_GROUP): 224.0.0.1
AllHostsGroup == <<224, 0, 0, 1>>

\* The destination of the announcements
all_nodes4 == SockAddr(AF_INET, AllHostsGroup, htons(NATPMPD_CLIENT_PORT))

\* sc_delay after an announcement
NextDelay_Same(delay) == delay

NextDelay(delay) == delay + 1

\* announce_address: the announcement timer fires; the reactor has taken it
\* off the timeout queue
announce_address ==
    /\ status = "running"
    /\ handler = "none"
    /\ sc_announce_ev.pending
    /\ \E now \in Uptimes :
         LET zero   == [i \in 1..12 |-> 0]       \* memset(r, 0, ...)
             packet == Put(Put(Put(Put(Put(zero,
                          0, <<NATPMPD_MAX_VERSION>>),
                          1, <<128>>),
                          2, ResultBytes(NATPMP_SUCCESS)),
                          4, htonl(now)),
                          8, sc_address)
             socks  == SelectSeq(ListenFamilies, LAMBDA f : f = AF_INET)
         IN  outbox' = [i \in 1..Len(socks) |->
                           [to |-> all_nodes4, data |-> packet]]
    /\ sc_delay' = NextDelay(sc_delay)
    /\ sc_announce_ev' = IF sc_delay' < NATPMPD_MAX_DELAY
                         THEN [pending |-> TRUE, tv |-> timeouts[sc_delay' + 1]]
                         ELSE NotPending
    /\ handler' = "announce_address"
    /\ before' = <<Snapshot>>
    /\ req' = <<>>
    /\ fwlog' = <<>>
    /\ UNCHANGED <<mappings, rules, sc_address, timers, status,
                   last_rebuild>>

\* The loop of handle_signal from the mapping at the head of `rest`: every
\* mapping is unlinked and freed and m->entry.le_next is read afterwards, as
\* in natpmp_remove_mapping
RECURSIVE SignalLoop(_, _, _, _)
SignalLoop(rest, count, del, freed) ==
    IF rest = <<>>
    THEN [mappings |-> <<>>, deleted |-> del, fault |-> FALSE]
    ELSE IF count < freed.intact
         THEN SignalLoop(Tail(rest), count + 1,
                         del \cup EvtimerDel(Head(rest)), freed)
         ELSE [mappings |-> Tail(rest),
               deleted  |-> del \cup EvtimerDel(Head(rest)),
               fault    |-> (freed.then = "wild")]

\* handle_signal: SIGINT or SIGTERM is delivered.  sc_announce_ev is not
\* touched; exit(0) ends the process with whatever is still pending.
handle_signal(answers) ==
    /\ status = "running"
    /\ handler = "none"
    /\ \E freed \in FreedReads(Len(mappings)), a \in answers :
         \E lp \in {SignalLoop(mappings, 0, {}, freed)} :
           /\ mappings' = lp.mappings
           /\ timers' = timers \ lp.deleted
           /\ IF lp.fault
              THEN /\ status' = "crashed"
                   /\ fwlog' = <<>>
                   /\ UNCHANGED <<rules, last_rebuild>>
              ELSE \E rb \in {rebuild_rules(lp.mappings, rules, a)} :
                     /\ rules' = rb.rules
                     /\ fwlog' = Rebuilt(rb).log
                     /\ last_rebuild' = rb.rc
                     /\ status' = "exited"
    /\ handler' = "handle_signal"
    /\ before' = <<Snapshot>>
    /\ req' = <<>>
    /\ outbox' = <<>>
    /\ UNCHANGED <<sc_address, sc_delay, sc_announce_ev>>

\* The environment takes what the last callback emitted
Drain ==
    /\ handler # "none"
    /\ handler' = "none"
    /\ before' = <<>>
    /\ req' = <<>>
    /\ outbox' = <<>>
    /\ fwlog' = <<>>
    /\ UNCHANGED <<mappings, rules, sc_address, sc_delay, sc_announce_ev,
                   timers, status, last_rebuild>>

\* main() up to event_dispatch(): the anchor cleared by the first rebuild,
\* the first check_interface done
Init ==
    /\ mappings = <<>>
    /\ rules = {}
    /\ sc_address \in ExtAddrs \cup {Unspecified}
    /\ sc_delay = 0
    /\ sc_announce_ev = IF sc_address = Unspecified THEN NotPending
                        ELSE [pending |-> TRUE, tv |-> timeouts[1]]
    /\ timers = {}
    /\ status = "running"
    /\ handler = "none"
    /\ before = <<>>
    /\ req = <<>>
    /\ outbox = <<>>
    /\ fwlog = <<>>
    /\ last_rebuild = 0

Next ==
    \/ common_handler(BackendUp)
    \/ expire_mapping(BackendUp)
    \/ route_handler
    \/ Drain

Spec == Init /\ [][Next]_vars

\* The UDP mapping requests of the first client that leave the port to the
\* daemon
PlainRequests ==
    {d \in MappingDatagrams : /\ d.from.sin_addr = <<10, 0, 0, 1>>
                              /\ ReqOpcode(d.data) = NATPMP_OPCODE_MAP_UDP
                              /\ ReqPort1(d.data) = ZeroPort}

\* The daemon over a backend that may fail in every way, with these
\* requests and the expiries
NextBackend ==
    \/ Receive(PlainRequests, BackendAnswers)
    \/ expire_mapping(BackendAnswers)
    \/ Drain

SpecBackend == Init /\ [][NextBackend]_vars

\* The addresses the interface takes while the announcements are watched
AnnounceAddrs == {<<198, 51, 100, a>> : a \in 1..NumAnnounceAddrs}

\* The announcement side of the daemon: interface events and the
\* announcement timer
NextAnnounce ==
    \/ RouteMessage(AnnounceAddrs \cup {Unspecified})
    \/ announce_address
    \/ Drain

SpecAnnounce == Init /\ [][NextAnnounce]_vars

\* ... where a timer that is due fires and a callback returns
LiveAnnounce ==
    SpecAnnounce /\ SF_vars(announce_address) /\ WF_vars(Drain)

\* The whole daemon: requests, expiries, interface events, announcements
\* and the termination signals
NextSignal ==
    \/ Receive(PlainRequests, BackendUp)
    \/ expire_mapping(BackendUp)
    \/ route_handler
    \/ announce_address
    \/ handle_signal(BackendAnswers)
    \/ Drain

SpecSignal == Init /\ [][NextSignal]_vars

\* The UDP mapping requests of the first client for its own ports, with
\* lifetimes that let a refresh differ from the create, and the deletes
ExpiryRequests ==
    {[from |-> From(AF_INET, <<10, 0, 0, 1>>),
      data |-> MapRequest(0, NATPMP_OPCODE_MAP_UDP, p0, ZeroPort, lt)] :
        p0 \in IntPorts, lt \in 0..(MaxLifetime + 1)}

\* Requests and expiries over a backend that commits
NextExpiry ==
    \/ Receive(ExpiryRequests, {AnswerOk})
    \/ expire_mapping({AnswerOk})
    \/ Drain

SpecExpiry == Init /\ [][NextExpiry]_vars

\* Every timer the requests can arm
ExpiryTimers ==
    {<<IPPROTO_UDP, SockAddr(AF_INET, <<10, 0, 0, 1>>, p)>> : p \in IntPorts}

\* A pending timer fires once its delay has passed, and the reactor returns
\* to its loop after every callback
LiveExpiry ==
    /\ SpecExpiry
    /\ \A t \in ExpiryTimers : SF_vars(Expire(t, {AnswerOk}))
    /\ WF_vars(Drain)

\* The external ports a client may ask for: none, the first and the last of
\* the automatic range, and two outside it
WishedPorts ==
    {ZeroPort, htons(IPPORT_HIFIRSTAUTO), htons(IPPORT_HILASTAUTO),
     htons(IPPORT_HIFIRSTAUTO - 1), htons(80)}

\* The create requests of the first client, for both protocols, with every
\* wish for the external port
PortRequests ==
    {[from |-> From(AF_INET, <<10, 0, 0, 1>>),
      data |-> MapRequest(0, op, p0, p1, 1)] :
        op \in {NATPMP_OPCODE_MAP_UDP, NATPMP_OPCODE_MAP_TCP},
        p0 \in IntPorts,
        p1 \in WishedPorts}

\* Create requests and expiries over a backend that commits
NextPorts ==
    \/ Receive(PortRequests, {AnswerOk})
    \/ expire_mapping({AnswerOk})
    \/ Drain

SpecPorts == Init /\ [][NextPorts]_vars

---------------------------------------------------------------------------
(* Vocabulary of the properties.  In the state a callback leaves, Was is    *)
(* the state it started from, Asked the datagram it read, outbox what it    *)
(* sent and fwlog what it asked of the backend.                             *)

Was == before[1]
Asked == req[1]

\* common_handler ran last
Handled == handler = "common_handler"

\* A NAT-PMP mapping request of the right length, received over IPv4
IsMappingRequest(d) ==
    /\ d.from.sin_family = AF_INET
    /\ Len(d.data) = 12
    /\ ReqVersion(d.data) = 0
    /\ ReqOpcode(d.data) \in {NATPMP_OPCODE_MAP_UDP, NATPMP_OPCODE_MAP_TCP}

\* ... with internal_port > 0 and lifetime > 0
IsCreateRequest(d) ==
    /\ IsMappingRequest(d)
    /\ ReqPort0(d.data) # ZeroPort
    /\ ReqLifetime(d.data) # ZeroLifetime

ProtoAsked(d) ==
    IF ReqOpcode(d.data) = NATPMP_OPCODE_MAP_UDP THEN IPPROTO_UDP
    ELSE IPPROTO_TCP

\* The places in `list` of the mappings for (proto, internal address, port)
At(list, proto, addr, port) ==
    {i \in 1..Len(list) : /\ list[i].proto = proto
                          /\ list[i].rdr.sin_addr = addr
                          /\ list[i].rdr.sin_port = port}

\* The places of the mappings the request d is about
AtAsked(list, d) ==
    At(list, ProtoAsked(d), d.from.sin_addr, ReqPort0(d.data))

\* The mapping the request d is about (when there is one)
TheAsked(list, d) == list[CHOOSE i \in AtAsked(list, d) : TRUE]

\* The (protocol, internal address, internal port) triples in `list`
Keys(list) ==
    {<<list[i].proto, list[i].rdr.sin_addr, list[i].rdr.sin_port>> :
        i \in 1..Len(list)}

\* The number of rule rebuilds in a log of backend calls
Rebuilds(log) ==
    Cardinality({i \in 1..Len(log) : log[i].call = "prepare_commit"})

\* The only datagram sent
Reply == outbox[1].data

---------------------------------------------------------------------------
(* C1 *)

\* C1: in every reachable state the store holds at most one mapping for
\* each (protocol, internal address, internal port) triple.
C1_OneMappingPerKey ==
    \A i, j \in 1..Len(mappings) :
        ( /\ mappings[i].proto = mappings[j].proto
          /\ mappings[i].rdr.sin_addr = mappings[j].rdr.sin_addr
          /\ mappings[i].rdr.sin_port = mappings[j].rdr.sin_port ) => i = j

\* A repeat request has been handled with another mapping in the store
C1_Witness ==
    /\ Handled
    /\ IsCreateRequest(Asked)
    /\ AtAsked(Was.mappings, Asked) # {}
    /\ Len(mappings) = 2
    /\ Cardinality(AtAsked(mappings, Asked)) = 1

---------------------------------------------------------------------------
(* C2 *)

\* C2: a request with internal_port > 0 and lifetime > 0 for a (protocol,
\* internal endpoint) that has a mapping in the store is answered with the
\* external port stored for that mapping, whatever port and lifetime it
\* asks for; the mapping's external and internal endpoints and the number
\* of mappings stay as they were.
C2_RepeatKeepsStoredPort ==
    (Handled /\ IsCreateRequest(Asked) /\ AtAsked(Was.mappings, Asked) # {})
    => /\ Len(outbox) = 1
       /\ RespPort1(Reply) = TheAsked(Was.mappings, Asked).dst.sin_port
       /\ AtAsked(mappings, Asked) # {}
       /\ TheAsked(mappings, Asked).dst = TheAsked(Was.mappings, Asked).dst
       /\ TheAsked(mappings, Asked).rdr = TheAsked(Was.mappings, Asked).rdr
       /\ Len(mappings) = Len(Was.mappings)

\* A repeat request that asked for another external port than the stored one
C2_Witness ==
    /\ Handled
    /\ IsCreateRequest(Asked)
    /\ AtAsked(Was.mappings, Asked) # {}
    /\ ReqPort1(Asked.data) # ZeroPort
    /\ ReqPort1(Asked.data) # TheAsked(Was.mappings, Asked).dst.sin_port
    /\ Len(outbox) = 1
    /\ RespPort1(Reply) = TheAsked(mappings, Asked).dst.sin_port

---------------------------------------------------------------------------
(* C3 *)

\* The mappings of `list` for the internal endpoint of d under the other
\* protocol
RelatedAsked(list, d) ==
    {i \in 1..Len(list) : /\ list[i].proto # ProtoAsked(d)
                          /\ list[i].rdr.sin_addr = d.from.sin_addr
                          /\ list[i].rdr.sin_port = ReqPort0(d.data)}

\* C3: a mapping created for an internal endpoint that has a mapping under
\* the other protocol gets that mapping's external port, and so in every
\* state the mappings of one internal endpoint have the same external port.
C3_RelatedPortReused ==
    /\ \A i, j \in 1..Len(mappings) :
          ( /\ mappings[i].rdr.sin_addr = mappings[j].rdr.sin_addr
            /\ mappings[i].rdr.sin_port = mappings[j].rdr.sin_port )
          => mappings[i].dst.sin_port = mappings[j].dst.sin_port
    /\ ( /\ Handled
         /\ IsCreateRequest(Asked)
         /\ AtAsked(Was.mappings, Asked) = {}
         /\ RelatedAsked(Was.mappings, Asked) # {} )
       => /\ AtAsked(mappings, Asked) # {}
          /\ \A r \in RelatedAsked(Was.mappings, Asked) :
                TheAsked(mappings, Asked).dst.sin_port
                    = Was.mappings[r].dst.sin_port

\* A TCP mapping was created beside the UDP mapping of its endpoint, which
\* has the upper sample of the port range, while the client asked for the
\* lower one
C3_Witness ==
    /\ Handled
    /\ IsCreateRequest(Asked)
    /\ ProtoAsked(Asked) = IPPROTO_TCP
    /\ AtAsked(Was.mappings, Asked) = {}
    /\ RelatedAsked(Was.mappings, Asked) # {}
    /\ ReqPort1(Asked.data) = htons(IPPORT_HIFIRSTAUTO)
    /\ AtAsked(mappings, Asked) # {}
    /\ TheAsked(mappings, Asked).dst.sin_port # htons(IPPORT_HIFIRSTAUTO)

---------------------------------------------------------------------------
(* C4 *)

\* `list` without its mappings in `gone`, the others as they were (their
\* timers included)
RECURSIVE Keep(_, _)
Keep(list, gone) ==
    IF list = <<>> THEN <<>>
    ELSE IF Head(list) \in gone THEN Keep(Tail(list), gone)
    ELSE <<Head(list)>> \o Keep(Tail(list), gone)

\* The mappings of `list` a delete request d is for: its protocol, the
\* client's address and, unless it asks for port 0, its internal port
Doomed(list, d) ==
    {list[i] : i \in {j \in 1..Len(list) :
        /\ list[j].proto = ProtoAsked(d)
        /\ list[j].rdr.sin_addr = d.from.sin_addr
        /\ (ReqPort0(d.data) = ZeroPort
            \/ list[j].rdr.sin_port = ReqPort0(d.data))}}

\* C4: a mapping request with internal_port > 0 and lifetime = 0 removes the
\* mapping for (protocol, client address, internal_port) if there is one and
\* no other mapping, the others staying in the store with their timers
\* armed; the response carries port0 = internal_port, port1 = 0 and
\* lifetime = 0.
C4_DeleteOneAsStated ==
    ( /\ Handled
      /\ IsMappingRequest(Asked)
      /\ ReqPort0(Asked.data) # ZeroPort
      /\ ReqLifetime(Asked.data) = ZeroLifetime )
    => /\ mappings = Keep(Was.mappings, Doomed(Was.mappings, Asked))
       /\ Len(outbox) = 1
       /\ Len(Reply) = 16
       /\ RespPort0(Reply) = ReqPort0(Asked.data)
       /\ RespPort1(Reply) = ZeroPort
       /\ RespLifetime(Reply) = ZeroLifetime

---------------------------------------------------------------------------
(* C5 *)

\* C5: a mapping request with internal_port = 0, whatever its lifetime,
\* removes every mapping of its protocol and of the client's address and
\* nothing else; a 16-byte response with ports 0/0 and lifetime 0 is sent,
\* also when there was no such mapping and the store stays as it was.
C5_DeleteAllAsStated ==
    ( /\ Handled
      /\ IsMappingRequest(Asked)
      /\ ReqPort0(Asked.data) = ZeroPort )
    => /\ mappings = Keep(Was.mappings, Doomed(Was.mappings, Asked))
       /\ Len(outbox) = 1
       /\ Len(Reply) = 16
       /\ RespPort0(Reply) = ZeroPort
       /\ RespPort1(Reply) = ZeroPort
       /\ RespLifetime(Reply) = ZeroLifetime

---------------------------------------------------------------------------
(* C6 *)

\* C6: the response to a well-formed mapping request with internal_port > 0
\* and lifetime > 0 carries port0 = the requested internal port, lifetime =
\* the requested lifetime and port1 = the external port of the mapping the
\* store holds for (protocol, client address, internal port) when the
\* handler returns; that mapping has the client's address as internal
\* address, and as external address the gateway's external address at the
\* time it was created: the cached address when this request created it, the
\* address it had before when this request refreshed it; and no other
\* callback changes a stored mapping's addresses.
C6_CreateResponseAndStore ==
    /\ (Handled /\ IsCreateRequest(Asked))
       => /\ Len(outbox) = 1
          /\ Len(Reply) = 16
          /\ RespPort0(Reply) = ReqPort0(Asked.data)
          /\ RespLifetime(Reply) = ReqLifetime(Asked.data)
          /\ AtAsked(mappings, Asked) # {}
          /\ RespPort1(Reply) = TheAsked(mappings, Asked).dst.sin_port
          /\ TheAsked(mappings, Asked).rdr.sin_addr = Asked.from.sin_addr
          /\ TheAsked(mappings, Asked).dst.sin_addr
                = IF AtAsked(Was.mappings, Asked) = {}
                  THEN Was.sc_address
                  ELSE TheAsked(Was.mappings, Asked).dst.sin_addr
    /\ handler = "route_handler" => mappings = Was.mappings
    /\ handler = "expire_mapping"
       => \A i \in 1..Len(mappings) :
             \E j \in 1..Len(Was.mappings) : mappings[i] = Was.mappings[j]

\* A mapping was refreshed after the gateway's address changed: it keeps the
\* address of its creation, the response its port
C6_Witness ==
    /\ Handled
    /\ IsCreateRequest(Asked)
    /\ AtAsked(Was.mappings, Asked) # {}
    /\ TheAsked(mappings, Asked).dst.sin_addr # sc_address
    /\ sc_address # Unspecified
    /\ Len(outbox) = 1
    /\ RespPort1(Reply) # ReqPort0(Asked.data)
    /\ RespPort1(Reply) = TheAsked(mappings, Asked).dst.sin_port

---------------------------------------------------------------------------
(* C7 *)

\* C7: a request of at least 2 bytes (received over IPv4) whose version
\* exceeds the supported maximum and whose opcode has its high bit clear is
\* answered with exactly one response, of 8 bytes, with the
\* unsupported-version result and opcode 0x80; the mapping store and the
\* rule set stay as they were.
C7_LaterVersionAsStated ==
    ( /\ Handled
      /\ Asked.from.sin_family = AF_INET
      /\ Len(Asked.data) >= 2
      /\ ReqVersion(Asked.data) > NATPMP_MAX_VERSION
      /\ ReqOpcode(Asked.data) < 128 )
    => /\ Len(outbox) = 1
       /\ Len(Reply) = 8
       /\ RespResult(Reply) = ResultBytes(NATPMP_UNSUPP_VERSION)
       /\ RespOpcode(Reply) = 128
       /\ mappings = Was.mappings
       /\ rules = Was.rules

---------------------------------------------------------------------------
(* C8 *)

\* A version-0 request with an opcode below 128 that is none of announce,
\* map-UDP and map-TCP
IsUnknownRequest(d) ==
    /\ Len(d.data) >= 2
    /\ ReqVersion(d.data) = 0
    /\ ReqOpcode(d.data) < 128
    /\ ReqOpcode(d.data) \notin {NATPMP_OPCODE_ANNOUNCE,
                                 NATPMP_OPCODE_MAP_UDP,
                                 NATPMP_OPCODE_MAP_TCP}

\* C8: a version-0 request of any length >= 2 (received over IPv4) with an
\* unknown opcode below 128 is answered with exactly one response, which has
\* the request's length, carries the unsupported-opcode result and equals
\* the request in every byte outside the result field; the mapping store
\* stays as it was, in a daemon that is still there to hold it.
C8_EchoAsStated ==
    (Handled /\ Asked.from.sin_family = AF_INET /\ IsUnknownRequest(Asked))
    => /\ Len(outbox) = 1
       /\ Len(Reply) = Len(Asked.data)
       /\ Len(Reply) >= 4
       /\ RespResult(Reply) = ResultBytes(NATPMP_UNSUPP_OPCODE)
       /\ \A i \in 1..Len(Reply) : i \notin {3, 4} => Reply[i] = Asked.data[i]
       /\ mappings = Was.mappings
       /\ status = "running"

---------------------------------------------------------------------------
(* C9 *)

\* The datagrams the daemon drops
IsDropped(d) ==
    \/ Len(d.data) < 2
    \/ ReqOpcode(d.data) >= 128
    \/ /\ ReqVersion(d.data) = 0
       /\ ReqOpcode(d.data) = NATPMP_OPCODE_ANNOUNCE
       /\ Len(d.data) # 2
    \/ /\ ReqVersion(d.data) = 0
       /\ ReqOpcode(d.data) \in {NATPMP_OPCODE_MAP_UDP, NATPMP_OPCODE_MAP_TCP}
       /\ Len(d.data) # 12

\* C9: a datagram shorter than 2 bytes, or with the opcode's high bit set,
\* or a version-0 announce request not 2 bytes long, or a version-0 mapping
\* request not 12 bytes long gets no response and leaves the mapping store
\* with every expiry timer, the rule set and the announcement scheduler
\* (cached address, backoff index, announcement timer) as they were; the
\* backend is not called.
C9_DroppedChangesNothing ==
    (Handled /\ IsDropped(Asked))
    => /\ outbox = <<>>
       /\ mappings = Was.mappings
       /\ rules = Was.rules
       /\ fwlog = <<>>
       /\ sc_address = Was.sc_address
       /\ sc_delay = Was.sc_delay
       /\ sc_announce_ev = Was.sc_announce_ev
       /\ status = "running"

\* A mapping request one byte too long was dropped while the store held a
\* mapping with its timer armed and an announcement was pending
C9_Witness ==
    /\ Handled
    /\ IsDropped(Asked)
    /\ Len(Asked.data) = 13
    /\ ReqOpcode(Asked.data) = NATPMP_OPCODE_MAP_UDP
    /\ Len(mappings) > 0
    /\ mappings[1].ev.pending
    /\ sc_announce_ev.pending
    /\ outbox = <<>>

---------------------------------------------------------------------------
(* C10 *)

\* C10: a mapping request or an expiry rebuilds the rules before it returns
\* if and only if it changed the membership of the store: exactly one
\* rebuild after a create, a removal of one or more mappings or an expiry,
\* none after a refresh or a delete request that matches no mapping.
C10_RebuildIffChangedAsStated ==
    ( \/ handler = "expire_mapping"
      \/ Handled /\ IsMappingRequest(Asked) )
    => Rebuilds(fwlog) = IF Keys(mappings) # Keys(Was.mappings) THEN 1 ELSE 0

---------------------------------------------------------------------------
(* C11 *)

\* The places of the calls of fn in a log of backend calls
CallsOf(log, fn) == {i \in 1..Len(log) : log[i].call = fn}

\* The callback that ran last rebuilt the rules
HasRebuilt == handler # "none" /\ CallsOf(fwlog, "prepare_commit") # {}

\* ... and was told that the rebuild failed
RebuildFailed == CallsOf(fwlog, "log_warn") # {}

\* C11: in every rule rebuild the commit is attempted at most twice, and a
\* second time only after the first attempt failed with EBUSY; the rebuild
\* reports success exactly when a commit attempt succeeded; the rollback is
\* called exactly when the rebuild reports failure, that is after a failed
\* prepare, a failed add, a commit that failed otherwise than busy or a
\* failed retry, and never after a commit that succeeded.
C11_CommitRetryAndRollback ==
    HasRebuilt =>
        LET commits   == CallsOf(fwlog, "do_commit")
            rollbacks == CallsOf(fwlog, "do_rollback")
            good      == {i \in commits : fwlog[i].ret = 0}
            first     == CHOOSE i \in commits : \A j \in commits : i <= j
            gaveup    == {i \in 1..Len(fwlog) :
                            /\ fwlog[i].ret = -1
                            /\ \/ fwlog[i].call \in {"prepare_commit",
                                                     "add_rdr"}
                               \/ /\ fwlog[i].call = "do_commit"
                                  /\ fwlog[i].errno # "EBUSY" \/ i # first}
        IN  /\ Cardinality(commits) <= 2
            /\ Cardinality(commits) = 2
               => /\ fwlog[first].ret = -1
                  /\ fwlog[first].errno = "EBUSY"
            /\ ~RebuildFailed <=> good # {}
            /\ Cardinality(rollbacks) = IF RebuildFailed THEN 1 ELSE 0
            /\ RebuildFailed <=> gaveup # {}
            /\ \A i \in good : \A j \in 1..Len(fwlog) :
                  j > i => fwlog[j].call \notin {"do_commit", "do_rollback"}

\* A rebuild whose commit was busy twice: two attempts, then the rollback
C11_Witness ==
    /\ HasRebuilt
    /\ Cardinality(CallsOf(fwlog, "do_commit")) = 2
    /\ \A i \in CallsOf(fwlog, "do_commit") : fwlog[i].errno = "EBUSY"
    /\ CallsOf(fwlog, "do_rollback") # {}
    /\ Len(mappings) > 0

---------------------------------------------------------------------------
(* C12 *)

\* What every announcement and every address change does to the scheduler:
\* an announcement is sent only by the pending timer, armed with the delay
\* of its place in the table, carries the address cached when it is sent,
\* advances sc_delay by one and arms the timer again unless it was the
\* tenth; a change to a specified address starts over at the first delay;
\* the timer is pending exactly during a burst.
C12_Steps ==
    /\ handler = "announce_address"
       => /\ Was.sc_announce_ev.pending
          /\ Was.sc_delay \in 0..(NATPMPD_MAX_DELAY - 1)
          /\ Was.sc_announce_ev.tv = timeouts[Was.sc_delay + 1]
          /\ Len(outbox) = 1
          /\ Len(Reply) = 12
          /\ outbox[1].to = all_nodes4
          /\ RespAddress(Reply) = sc_address
          /\ sc_address = Was.sc_address
          /\ sc_address # Unspecified
          /\ sc_delay = Was.sc_delay + 1
    /\ (handler = "route_handler" /\ sc_address # Was.sc_address
                                  /\ sc_address # Unspecified)
       => /\ sc_delay = 0
          /\ sc_announce_ev = [pending |-> TRUE, tv |-> timeouts[1]]
    /\ handler \notin {"announce_address", "route_handler", "none"}
       => /\ sc_delay = Was.sc_delay
          /\ sc_announce_ev = Was.sc_announce_ev
          /\ sc_address = Was.sc_address
    /\ sc_announce_ev.pending
       <=> (sc_address # Unspecified /\ sc_delay < NATPMPD_MAX_DELAY)
    /\ sc_announce_ev.pending => sc_announce_ev.tv = timeouts[sc_delay + 1]

---------------------------------------------------------------------------
(* C13 *)

\* C13: an interface event that changes the cached address to the
\* unspecified one leaves no announcement timer pending, whether one was
\* pending before or not; while the cached address is unspecified no timer
\* is pending and no announcement is sent; an interface event that does not
\* change the address leaves sc_address, sc_delay and the timer as they
\* were.
C13_UnspecifiedIsNotAnnounced ==
    /\ sc_address = Unspecified => ~sc_announce_ev.pending
    /\ handler = "announce_address"
       => /\ Was.sc_address # Unspecified
          /\ \A i \in 1..Len(outbox) :
                RespAddress(outbox[i].data) # Unspecified
    /\ (handler = "route_handler" /\ sc_address = Was.sc_address)
       => /\ sc_delay = Was.sc_delay
          /\ sc_announce_ev = Was.sc_announce_ev

\* A pending timer cancelled by the change to the unspecified address
C13_Witness ==
    /\ handler = "route_handler"
    /\ sc_address = Unspecified
    /\ Was.sc_address # Unspecified
    /\ Was.sc_announce_ev.pending
    /\ ~sc_announce_ev.pending

\* An event that finds the address unchanged while a timer is pending
C13_UnchangedSeen ==
    /\ handler = "route_handler"
    /\ sc_address = Was.sc_address
    /\ sc_announce_ev.pending
    /\ sc_delay > 0

---------------------------------------------------------------------------
(* C20 *)

\* C20 as stated: sc_delay is always a position of the ten-entry table,
\* 0..9, also after the last announcement of a burst, and every change of
\* the cached address, to a specified address or to the unspecified one,
\* sets it to 0.
C20_AlwaysAPositionAndReset ==
    /\ sc_delay \in 0..(NATPMPD_MAX_DELAY - 1)
    /\ (handler = "route_handler" /\ sc_address # Was.sc_address)
       => sc_delay = 0

\* C20 as the code has it: sc_delay lies within 0..10; it is 10, one past
\* the table, once the last announcement of a burst has been sent, and
\* then no timer is pending, so the table is never read at that position;
\* a change to a specified address sets it to 0; a change to the
\* unspecified address leaves it as it was.
C20_PositionOrOnePast ==
    /\ sc_delay \in 0..NATPMPD_MAX_DELAY
    /\ sc_announce_ev.pending => sc_delay < NATPMPD_MAX_DELAY
    /\ (handler = "announce_address"
        /\ Was.sc_delay = NATPMPD_MAX_DELAY - 1)
       => sc_delay = NATPMPD_MAX_DELAY
    /\ (handler = "route_handler" /\ sc_address # Was.sc_address)
       => sc_delay = IF sc_address = Unspecified THEN Was.sc_delay ELSE 0

\* The address is lost after the last announcement of a burst
C20_Witness ==
    /\ handler = "route_handler"
    /\ sc_address = Unspecified
    /\ Was.sc_address # Unspecified
    /\ sc_delay = NATPMPD_MAX_DELAY

---------------------------------------------------------------------------
(* C14 *)

\* What C14 states of the mappings: when handle_signal has run every
\* expiry timer is off the queue, the store is empty, the rules were rebuilt
\* exactly once, over the empty store, so that no rule is left when the
\* commit succeeded, and the process has exited
C14_StoreFlushed ==
    handler = "handle_signal"
    => /\ timers = {}
       /\ mappings = <<>>
       /\ Rebuilds(fwlog) = 1
       /\ CallsOf(fwlog, "add_rdr") = {}
       /\ (~RebuildFailed => rules = {})
       /\ status = "exited"

\* C14 as stated: when handle_signal has run, no expiry timer and no
\* announcement timer is pending, the store is empty, the rules were
\* rebuilt exactly once, over the empty store, and the process has exited;
\* no callback runs in a process that is no longer running.
C14_ShutdownAsStated ==
    /\ C14_StoreFlushed
    /\ handler = "handle_signal" => ~sc_announce_ev.pending
    /\ handler # "none" => Was.status = "running"

---------------------------------------------------------------------------
(* C15 *)

\* A version-0 announce request of 2 bytes received over IPv4
IsAnnounceRequest(d) ==
    /\ d.from.sin_family = AF_INET
    /\ Len(d.data) = 2
    /\ ReqVersion(d.data) = 0
    /\ ReqOpcode(d.data) = NATPMP_OPCODE_ANNOUNCE

\* C15: a response to a 2-byte announce request or to a 12-byte mapping
\* request of version 0 carries the network-failure result when the cached
\* address was unspecified as the request was handled and the success
\* result otherwise; its opcode is the request's with the top bit set; the
\* announce response is 12 bytes long and carries the cached address, the
\* mapping response is 16 bytes long.
C15_ResultFollowsAddress ==
    (/\ Handled
     /\ outbox # <<>>
     /\ IsAnnounceRequest(Asked) \/ IsMappingRequest(Asked))
    => /\ Len(outbox) = 1
       /\ outbox[1].to = Asked.from
       /\ RespResult(Reply) =
             ResultBytes(IF Was.sc_address = Unspecified
                         THEN NATPMP_NETWORK_FAILURE ELSE NATPMP_SUCCESS)
       /\ RespOpcode(Reply) = ReqOpcode(Asked.data) + 128
       /\ Reply[1] = 0
       /\ IF IsAnnounceRequest(Asked)
          THEN /\ Len(Reply) = 12
               /\ RespAddress(Reply) = Was.sc_address
          ELSE Len(Reply) = 16

\* A mapping is granted while no external address is known, and the
\* response says network failure
C15_Witness ==
    /\ Handled
    /\ IsCreateRequest(Asked)
    /\ Was.sc_address = Unspecified
    /\ outbox # <<>>
    /\ RespResult(Reply) = ResultBytes(NATPMP_NETWORK_FAILURE)
    /\ Len(mappings) = Len(Was.mappings) + 1

\* An announce request answered with the address and success
C15_AnnounceAnswered ==
    /\ Handled
    /\ IsAnnounceRequest(Asked)
    /\ outbox # <<>>
    /\ RespAddress(Reply) # Unspecified
    /\ RespResult(Reply) = ResultBytes(NATPMP_SUCCESS)

---------------------------------------------------------------------------
(* C16 *)

\* C16: whenever the daemon is running and no callback is under way, if the
\* most recent rebuild_rules() returned 0 then the anchor holds the rule
\* (protocol, external endpoint, internal endpoint) of every mapping in the
\* store, no other rule, and as many rules as there are mappings.
C16_RulesMirrorStore ==
    (/\ status = "running"
     /\ handler = "none"
     /\ last_rebuild = 0)
    => /\ rules = RulesOf(mappings)
       /\ Cardinality(rules) = Len(mappings)

\* Two mappings and their two rules while the last rebuild is one that
\* committed
C16_Witness ==
    /\ status = "running"
    /\ handler = "none"
    /\ last_rebuild = 0
    /\ Len(mappings) = 2
    /\ Cardinality(rules) = 2

\* The store ahead of the rules after a rebuild that failed
C16_OutOfSync ==
    /\ status = "running"
    /\ handler = "none"
    /\ last_rebuild = -1
    /\ rules # RulesOf(mappings)

---------------------------------------------------------------------------
(* C17 *)

\* The rebuild the last callback made was given up (rolled back)
RolledBack == handler # "none" /\ CallsOf(fwlog, "do_rollback") # {}

\* The mappings of `list` whose timer is in the set ts
Timed(list, ts) == {i \in 1..Len(list) : TimerOf(list[i]) \in ts}

\* C17: when the rebuild made for a mapping request fails, the store and
\* the response are those the same request gives with a backend that
\* commits; when the rebuild made for an expiry fails, the expired mapping
\* is out of the store all the same; in both cases the daemon is still
\* running, so that its callbacks stay enabled.
C17_FailedRebuildChangesNothingElse ==
    /\ (Handled /\ RolledBack)
       => /\ status = "running"
          /\ \E c \in Decisions(Was.mappings, Asked, {AnswerOk}) :
               LET ok == Dispatch(Was.mappings, Was.rules, Was.sc_address,
                                  Asked, c)
               IN  /\ ~ok.fault
                   /\ ok.mappings = mappings
                   /\ ok.sent = outbox
                   /\ ok.sent # <<>>
                   /\ (timers = (Was.timers \ ok.deleted) \cup ok.added)
    /\ (handler = "expire_mapping" /\ RolledBack)
       => /\ status = "running"
          /\ \E i \in Timed(Was.mappings, Was.timers \ timers) :
               mappings = Without(Was.mappings, i)

\* A create request whose rebuild failed twice on a busy backend: the
\* mapping is in the store, the rules are the old ones
C17_Witness ==
    /\ Handled
    /\ RolledBack
    /\ IsCreateRequest(Asked)
    /\ Len(mappings) = Len(Was.mappings) + 1
    /\ rules = Was.rules
    /\ outbox # <<>>
    /\ status = "running"

\* An expiry whose rebuild failed
C17_ExpiryRolledBack ==
    /\ handler = "expire_mapping"
    /\ RolledBack
    /\ Len(mappings) = Len(Was.mappings) - 1
    /\ rules = Was.rules
    /\ rules # {}

---------------------------------------------------------------------------
(* C18 *)

\* The timers of the mappings in `list`
TimersOf(list) == {TimerOf(list[i]) : i \in 1..Len(list)}

\* C18: in every state the expiry timers on the timeout queue are those of
\* the stored mappings, one for each, and each stored mapping's event is
\* pending; so a mapping that a delete request or handle_signal took out of
\* the store has no timer left when that callback returns, and the timer
\* that fires in expire_mapping is that of a mapping then in the store.
C18_TimersMirrorStore ==
    /\ timers = TimersOf(mappings)
    /\ Cardinality(timers) = Len(mappings)
    /\ \A i \in 1..Len(mappings) : mappings[i].ev.pending
    /\ handler \in {"common_handler", "handle_signal"}
       => \A i \in 1..Len(Was.mappings) :
             TimerOf(Was.mappings[i]) \notin TimersOf(mappings)
             => TimerOf(Was.mappings[i]) \notin timers
    /\ handler = "expire_mapping"
       => /\ status # "crashed"
          /\ \A t \in Was.timers \ timers : Holder(Was.mappings, t) # {}

\* A delete request that took one of two mappings and its timer away
C18_Witness ==
    /\ Handled
    /\ IsMappingRequest(Asked)
    /\ ReqLifetime(Asked.data) = ZeroLifetime
    /\ Len(Was.mappings) = 2
    /\ Len(mappings) = 1
    /\ Cardinality(Was.timers) = 2
    /\ timers = TimersOf(mappings)

\* handle_signal with two mappings in the store
C18_ShutdownSeen ==
    /\ handler = "handle_signal"
    /\ Len(Was.mappings) = 2
    /\ Was.timers \ timers # {}

---------------------------------------------------------------------------
(* C19 *)

\* The mapping the timer t belongs to is in the store
InStore(t) == Holder(mappings, t) # {}

\* The last callback handled a request for the mapping of the timer t: a
\* refresh or a delete (or the create itself)
Touched(t) ==
    /\ Handled
    /\ IsMappingRequest(Asked)
    /\ t = <<ProtoAsked(Asked),
             SockAddr(AF_INET, Asked.from.sin_addr, ReqPort0(Asked.data))>>

\* The last callback was the expiry of the timer t: its mapping is out of
\* the store and the rules were rebuilt
Expired(t) ==
    /\ handler = "expire_mapping"
    /\ t \in Was.timers \ timers
    /\ ~InStore(t)
    /\ Rebuilds(fwlog) = 1

\* What an expiry and a refresh do: the expiry removes the one mapping of
\* the timer that fired and rebuilds the rules once; the refresh leaves the
\* mapping with one timer, armed with the lifetime just asked for
C19_DeadlineSteps ==
    /\ handler = "expire_mapping"
       => /\ Cardinality(Was.timers \ timers) = 1
          /\ \A t \in Was.timers \ timers : Expired(t)
          /\ Len(mappings) = Len(Was.mappings) - 1
          /\ Rebuilds(fwlog) = 1
    /\ (Handled /\ IsCreateRequest(Asked)
                /\ AtAsked(Was.mappings, Asked) # {})
       => /\ timers = Was.timers
          /\ Cardinality(AtAsked(mappings, Asked)) = 1
          /\ TheAsked(mappings, Asked).ev =
                Armed(ntohl(ReqLifetime(Asked.data)))

\* C19 as stated: with every pending timer firing in the end, a mapping in
\* the store is eventually removed by the expiry of its timer, which
\* rebuilds the rules, unless a request refreshes or deletes it first; a
\* refresh leaves one deadline, the new one.
C19_ExpiryAsStated ==
    /\ []C19_DeadlineSteps
    /\ \A t \in ExpiryTimers : InStore(t) ~> (Expired(t) \/ Touched(t))

\* A refresh that replaced the lifetime of a mapping
C19_RefreshSeen ==
    /\ Handled
    /\ IsCreateRequest(Asked)
    /\ AtAsked(Was.mappings, Asked) # {}
    /\ TheAsked(mappings, Asked).ev # TheAsked(Was.mappings, Asked).ev

---------------------------------------------------------------------------
(* C21 *)

\* The host value of a port in network byte order
ntohs(port) == port[1] * 256 + port[2]

\* The request d with the bytes p as the external port asked for
Wishing(d, p) == [d EXCEPT !.data = Put(d.data, 6, p)]

\* The external ports the request d may be given when the store holds
\* `list` and the cached address is `address`
Assignable(list, installed, address, d) ==
    {RespPort1(Dispatch(list, installed, address, d, c).sent[1].data) :
        c \in Decisions(list, d, {AnswerOk})}

\* The last callback created a mapping for an internal endpoint that had
\* neither an exact nor a related mapping
FreshCreate ==
    /\ Handled
    /\ IsCreateRequest(Asked)
    /\ \A i \in 1..Len(Was.mappings) :
          Was.mappings[i].rdr # SockAddr(AF_INET, Asked.from.sin_addr,
                                         ReqPort0(Asked.data))

---------------------------------------------------------------------------
(* C22 *)

\* C22 as stated: no two stored mappings of the same protocol with
\* different internal endpoints have the same external port, and no two
\* installed rules match the same protocol and external port.
C22_ExternalPortsDistinct ==
    /\ \A i, j \in 1..Len(mappings) :
          (/\ mappings[i].proto = mappings[j].proto
           /\ mappings[i].rdr # mappings[j].rdr)
          => mappings[i].dst.sin_port # mappings[j].dst.sin_port
    /\ \A r1, r2 \in rules :
          (/\ r1.proto = r2.proto
           /\ r1.dst.sin_port = r2.dst.sin_port)
          => r1 = r2

---------------------------------------------------------------------------
(* C23 *)

\* C23 as stated: a mapping request answered with another result than
\* success leaves the store, its timers and the rules as they were and
\* makes no call to the backend; and no stored mapping has the unspecified
\* address as its external address.
C23_RefusedChangesNothing ==
    /\ (/\ Handled
        /\ IsMappingRequest(Asked)
        /\ outbox # <<>>
        /\ RespResult(Reply) # ResultBytes(NATPMP_SUCCESS))
       => /\ mappings = Was.mappings
          /\ timers = Was.timers
          /\ rules = Was.rules
          /\ fwlog = <<>>
    /\ \A i \in 1..Len(mappings) : mappings[i].dst.sin_addr # Unspecified

---------------------------------------------------------------------------
(* C24 *)

\* C24 as stated: in every state the external address of every stored
\* mapping, and of every installed rule, is the cached address, also after
\* an interface event has changed the address and after a refresh.
C24_MappingsFollowAddress ==
    /\ \A i \in 1..Len(mappings) : mappings[i].dst.sin_addr = sc_address
    /\ \A r \in rules : r.dst.sin_addr = sc_address

\* C24 after a refresh: a mapping refreshed once the address has changed
\* has the cached address as its external address
C24_RefreshFollowsAddress ==
    (/\ Handled
     /\ status = "running"
     /\ IsCreateRequest(Asked)
     /\ AtAsked(Was.mappings, Asked) # {})
    => TheAsked(mappings, Asked).dst.sin_addr = sc_address

====
